---- MODULE Spec2Model ----
(***************************************************************************)
(* AndroidExternalViewEmbedder                                             *)
(* (shell/platform/android/external_view_embedder/external_view_embedder.cc)*)
(* as a state machine: one action per public method, the collaborators     *)
(* (raster thread merger, surface pool, r-tree) as far as the embedder     *)
(* uses them.                                                              *)
(*                                                                         *)
(* Lengths are in half pixels, so that a rectangle can have fractional     *)
(* pixel coordinates: the pixel grid is the even numbers.                  *)
(***************************************************************************)
EXTENDS Integers, Sequences, FiniteSets, TLC

-----------------------------------------------------------------------------
(* Bounds of the model *)

\* draw operations recorded per frame, over all slots
MaxDraws == 3
\* overlay layers the pool may hold
MaxLayers == 5

\* the platform views of the application
ViewIds == {1, 2}

-----------------------------------------------------------------------------
(* Configuration (external_view_embedder.h) *)

\* cap on the rectangles of one r-tree query before they are joined
kMaxLayerAllocations == 2
\* frames the threads stay merged: a configured value that "must be at least
\* 1" (PostPrerollAction)
kDefaultMergedLeaseDuration == 2

-----------------------------------------------------------------------------
(* Inputs *)

\* EmbeddedViewParams: finalBoundingRect().x()/y() and sizePoints()
ParamsSet ==
  { [x |-> 0, y |-> 0, w |-> 8, h |-> 8],
    [x |-> 8, y |-> 0, w |-> 8, h |-> 8] }

\* bounds of the draw operations the UI may record after a platform view
DrawRects ==
  << <<1, 1, 3, 3>>,
     <<5, 1, 9, 3>>,
     <<1, 5, 3, 7>> >>

DrawIds == 1..Len(DrawRects)

PixelRatios == {1, 2}

FrameSizes == { <<32, 32>> }

\* what an SkRect declared without initializer may hold
UninitRects == { <<0, 0, 0, 0>>, <<20, 20, 24, 24>> }

NoParams == [x |-> -1, y |-> -1, w |-> -1, h |-> -1]

-----------------------------------------------------------------------------
(* SkRect *)

Min(a, b) == IF a < b THEN a ELSE b
Max(a, b) == IF a < b THEN b ELSE a

MakeXYWH(x, y, w, h) == <<x, y, x + w, y + h>>

IsEmpty(r) == ~(r[1] < r[3] /\ r[2] < r[4])

Intersects(a, b) ==
  /\ Max(a[1], b[1]) < Min(a[3], b[3])
  /\ Max(a[2], b[2]) < Min(a[4], b[4])

\* SkRect::join: an empty argument is ignored, an empty receiver is replaced
Join(a, b) ==
  IF IsEmpty(b) THEN a
  ELSE IF IsEmpty(a) THEN b
  ELSE <<Min(a[1], b[1]), Min(a[2], b[2]), Max(a[3], b[3]), Max(a[4], b[4])>>

Floor2(v) == v - (v % 2)
Ceil2(v) == v + (v % 2)

\* a rectangle left as it is
RoundOut_None(r) == r

\* SkRect::roundOut, then set(): floor of left/top, ceiling of right/bottom
RoundOut(r) == <<Floor2(r[1]), Floor2(r[2]), Ceil2(r[3]), Ceil2(r[4])>>

-----------------------------------------------------------------------------
(* RTree::searchNonOverlappingDrawnRects (flow/rtree.cc) *)

\* the draw records of a slot that intersect the query, in record order
RECURSIVE Hits(_, _, _)
Hits(content, query, k) ==
  IF k > Len(DrawRects) THEN <<>>
  ELSE (IF k \in content /\ Intersects(DrawRects[k], query)
        THEN <<DrawRects[k]>> ELSE <<>>) \o Hits(content, query, k + 1)

\* joined absorbs every later result it intersects; the result is joined
\* followed by the results that stay
RECURSIVE AbsorbRest(_, _)
AbsorbRest(joined, rest) ==
  IF rest = <<>> THEN <<joined>>
  ELSE IF Intersects(Head(rest), joined)
       THEN AbsorbRest(Join(joined, Head(rest)), Tail(rest))
       ELSE LET r == AbsorbRest(joined, Tail(rest))
            IN  <<Head(r)>> \o <<Head(rest)>> \o Tail(r)

AddRecord(results, rec) ==
  LET touching == {f \in 1..Len(results) : Intersects(results[f], rec)}
  IN  IF touching = {} THEN Append(results, rec)
      ELSE LET f == CHOOSE g \in touching : \A h \in touching : g <= h
           IN  SubSeq(results, 1, f - 1)
                 \o AbsorbRest(Join(results[f], rec),
                               SubSeq(results, f + 1, Len(results)))

RECURSIVE MergeRecords(_, _)
MergeRecords(results, recs) ==
  IF recs = <<>> THEN results
  ELSE MergeRecords(AddRecord(results, Head(recs)), Tail(recs))

searchNonOverlappingDrawnRects(content, query) ==
  MergeRecords(<<>>, Hits(content, query, 1))

-----------------------------------------------------------------------------
(* State *)

VARIABLES
  composition_order_,   \* std::vector<int64_t>: view ids in preroll order
  picture_recorders_,   \* view id -> recorder (NoRecorder: no entry)
  view_rtrees_,         \* view ids that have an entry
  view_params_,         \* view id -> EmbeddedViewParams (NoParams: no entry)
  frame_size_,
  device_pixel_ratio_,
  should_run_rasterizer_on_platform_thread_,
  surface_pool_,        \* [layers: layers created, in_use: layers handed out]
  merger,               \* raster thread merger: [merged, lease]
  on_platform,          \* the running raster task is on the platform thread
  calls,                \* calls the last operation made on its collaborators
  last,                 \* the last operation and what it returned
  prerolled,            \* view ids passed to Preroll since the last reset
  pc,                   \* position of the frame driver
  host_frame_open,      \* the host got FrameBegin and no FrameEnd since
  max_overlays,         \* most overlays one SubmitFrame has placed so far
  resubmit_asked,       \* this frame's PostPrerollAction: kResubmitFrame
  redriven              \* the frame before asked for it and was ended with
                        \* EndFrame(true)

vars ==
  << composition_order_, picture_recorders_, view_rtrees_, view_params_,
     frame_size_, device_pixel_ratio_,
     should_run_rasterizer_on_platform_thread_, surface_pool_, merger,
     on_platform, calls, last, prerolled, pc, host_frame_open, max_overlays,
     resubmit_asked, redriven >>

\* what the model records about the past of a run
history == << host_frame_open, max_overlays, resubmit_asked, redriven >>

\* std::unique_ptr<SkPictureRecorder>: the records drawn so far and whether
\* the recorder is still recording
NoRecorder == [content |-> {0}, recording |-> FALSE]

Recorder(content, recording) == [content |-> content, recording |-> recording]

NoRect == <<0, 0, 0, 0>>

\* a call on a collaborator, with the thread it is made on and what the
\* merger reports at that moment
Call(name, id, rect, platform) ==
  [call |-> name, id |-> id, rect |-> rect,
   platform |-> platform, merged |-> merger.merged]

Ret(op, ret) == [op |-> op, ret |-> ret]

Alive == last.ret # "fatal"

RECURSIVE SeqToSet(_)
SeqToSet(s) == IF s = <<>> THEN {} ELSE {Head(s)} \cup SeqToSet(Tail(s))

-----------------------------------------------------------------------------
(* Raster thread merger (fml/raster_thread_merger.cc) *)

IsMerged(m) == m.merged

ExtendLeaseTo(m, term) ==
  IF m.merged /\ m.lease < term THEN [m EXCEPT !.lease = term] ELSE m

MergeWithLease(m, term) ==
  IF m.merged THEN m ELSE [merged |-> TRUE, lease |-> term]

DecrementLeaseOf(m) ==
  IF ~m.merged THEN m
  ELSE IF m.lease > 1 THEN [m EXCEPT !.lease = m.lease - 1]
  ELSE [merged |-> FALSE, lease |-> 0]

-----------------------------------------------------------------------------
(* Surface pool (surface_pool.cc) *)

\* GetLayer: the next free layer, created when none is free
GetLayer(pool) ==
  [layers |-> Max(pool.layers, pool.in_use + 1), in_use |-> pool.in_use + 1]

RecycleLayers(pool) == [pool EXCEPT !.in_use = 0]

-----------------------------------------------------------------------------
(* Frame driver (the rasterizer): a frame is BeginFrame, Preroll*,         *)
(* PostPrerollAction, SubmitFrame, EndFrame, the lease ticking once after  *)
(* SubmitFrame. The UI draws until the frame is submitted. Before it is    *)
(* submitted a frame may be cancelled (CancelFrame), ended (EndFrame) or   *)
(* abandoned for the next BeginFrame.                                      *)

At(phases) == pc \in phases

Goto(phase) == pc' = phase

-----------------------------------------------------------------------------
(* AndroidExternalViewEmbedder *)

NoRecorders == [v \in ViewIds |-> NoRecorder]

\* Reset() that forgets composition_order_.clear()
Reset_KeepOrder ==
  /\ UNCHANGED composition_order_
  /\ picture_recorders_' = NoRecorders

\* Reset() that forgets picture_recorders_.clear()
Reset_KeepRecorders ==
  /\ composition_order_' = <<>>
  /\ UNCHANGED picture_recorders_

\* Reset(): composition_order_.clear(); picture_recorders_.clear()
Reset ==
  /\ composition_order_' = <<>>
  /\ picture_recorders_' = NoRecorders

\* SkPictureRecorder::getRecordingCanvas of the view's recorder
CompositeEmbeddedView(view_id) ==
  IF picture_recorders_[view_id] # NoRecorder
     /\ picture_recorders_[view_id].recording
  THEN "canvas" ELSE "nullptr"

GetViewRect(view_id) ==
  LET params == view_params_[view_id]
  IN  MakeXYWH(params.x, params.y,
               params.w * device_pixel_ratio_,
               params.h * device_pixel_ratio_)

RECURSIVE JoinAll(_, _)
JoinAll(joined_rect, rects) ==
  IF rects = <<>> THEN joined_rect
  ELSE JoinAll(Join(joined_rect, Head(rects)), Tail(rects))

\* lines 120-127: more than kMaxLayerAllocations rectangles become their join
LimitAllocations(intersection_rects, joined_rect) ==
  IF Len(intersection_rects) > kMaxLayerAllocations
  THEN <<JoinAll(joined_rect, intersection_rects)>>
  ELSE intersection_rects

\* lines 109-127: the rectangles of slot i that cover view j, before they
\* are rounded
KeptRects(i, j, joined_rect) ==
  LET view_id == composition_order_[i]
      current_view_rect == GetViewRect(composition_order_[j])
      found == searchNonOverlappingDrawnRects(
                 picture_recorders_[view_id].content, current_view_rect)
  IN  LimitAllocations(found, joined_rect)

\* one pass of the inner loop (lines 109-139): the rounded rectangles of
\* slot i that cover view j
IntersectionRects(i, j, joined_rect) ==
  LET kept == KeptRects(i, j, joined_rect)
  IN  [k \in 1..Len(kept) |-> RoundOut(kept[k])]

\* overlay_layers.at(view_id) after the loop over j = i .. 0
RECURSIVE OverlayLayersFrom(_, _, _)
OverlayLayersFrom(i, j, joined_rect) ==
  IF j < 1 THEN <<>>
  ELSE IntersectionRects(i, j, joined_rect)
         \o OverlayLayersFrom(i, j - 1, joined_rect)

OverlayLayers(i, joined_rect) == OverlayLayersFrom(i, i, joined_rect)

\* a background canvas that is never clipped
ClipCalls_None(rects, platform) == <<>>

\* line 138: clipRect(intersection_rect, SkClipOp::kDifference)
ClipCalls(rects, platform) ==
  [k \in 1..Len(rects) |-> Call("clipRect", 0, rects[k], platform)]

\* lines 92-142: every slot clips the background canvas, then draws on it
RECURSIVE BackgroundCalls(_, _, _)
BackgroundCalls(i, joined_rect, platform) ==
  IF i > Len(composition_order_) THEN <<>>
  ELSE ClipCalls(OverlayLayers(i, joined_rect), platform)
         \o <<Call("drawPicture", composition_order_[i], NoRect, platform)>>
         \o BackgroundCalls(i + 1, joined_rect, platform)

\* CreateSurfaceIfNeeded(...)->Submit() for the rectangles of one view, the
\* first of them on layer first_layer
RECURSIVE SurfaceCalls(_, _, _, _)
SurfaceCalls(view_id, rects, first_layer, platform) ==
  IF rects = <<>> THEN <<>>
  ELSE << Call("GetLayer", first_layer, NoRect, platform),
          Call("FlutterViewDisplayOverlaySurface", first_layer, Head(rects),
               platform),
          Call("overlay.drawPicture", view_id,
               <<-Head(rects)[1], -Head(rects)[2],
                 -Head(rects)[1], -Head(rects)[2]>>, platform),
          Call("overlay.Submit", first_layer, NoRect, platform) >>
         \o SurfaceCalls(view_id, Tail(rects), first_layer + 1, platform)

\* a placement loop over the views with stored params instead of the
\* composition order
PlacementCalls_StoredViews(i, joined_rect, first_layer, platform) ==
  LET stored == {v \in ViewIds : view_params_[v] # NoParams}
  IN  IF stored = {} \/ i > 1 THEN <<>>
      ELSE LET view_id == CHOOSE v \in stored : TRUE
           IN  <<Call("FlutterViewOnDisplayPlatformView", view_id,
                      GetViewRect(view_id), platform)>>

\* lines 147-165
RECURSIVE PlacementCalls(_, _, _, _)
PlacementCalls(i, joined_rect, first_layer, platform) ==
  IF i > Len(composition_order_) THEN <<>>
  ELSE LET view_id == composition_order_[i]
           rects == OverlayLayers(i, joined_rect)
       IN  <<Call("FlutterViewOnDisplayPlatformView", view_id,
                  GetViewRect(view_id), platform)>>
             \o SurfaceCalls(view_id, rects, first_layer, platform)
             \o PlacementCalls(i + 1, joined_rect,
                               first_layer + Len(rects), platform)

\* SubmitFrame that submits the background after the overlays
SubmitFrameCalls_SubmitLast(joined_rect, first_layer, platform) ==
  BackgroundCalls(1, joined_rect, platform)
    \o PlacementCalls(1, joined_rect, first_layer, platform)
    \o <<Call("frame.Submit", 0, NoRect, platform)>>

\* lines 92-165: the background is drawn and submitted (line 145), then the
\* views and their overlays are placed
SubmitFrameCalls(joined_rect, first_layer, platform) ==
  BackgroundCalls(1, joined_rect, platform)
    \o <<Call("frame.Submit", 0, NoRect, platform)>>
    \o PlacementCalls(1, joined_rect, first_layer, platform)

RECURSIVE NumOverlays(_, _)
NumOverlays(i, joined_rect) ==
  IF i > Len(composition_order_) THEN 0
  ELSE Len(OverlayLayers(i, joined_rect)) + NumOverlays(i + 1, joined_rect)

RECURSIVE GetLayers(_, _)
GetLayers(pool, n) == IF n = 0 THEN pool ELSE GetLayers(GetLayer(pool), n - 1)

\* finishRecordingAsPicture() on every recorder of the composition order
FinishRecording ==
  [v \in ViewIds |->
     IF v \in SeqToSet(composition_order_)
     THEN Recorder(picture_recorders_[v].content, FALSE)
     ELSE picture_recorders_[v]]

\* SubmitFrame without the early return of line 79
SubmitSuppressed_Never == FALSE

\* line 79
SubmitSuppressed == should_run_rasterizer_on_platform_thread_

NumDraws ==
  Cardinality({ <<v, d>> \in ViewIds \X DrawIds :
                  /\ picture_recorders_[v] # NoRecorder
                  /\ d \in picture_recorders_[v].content })

\* the view id put in front of the composition order
PushFront(order, view_id) == <<view_id>> \o order

\* line 35
PushBack(order, view_id) == Append(order, view_id)

\* PrerollCompositeEmbeddedView that never stores the params
StoreParams_Never(stored, view_id, params) == stored

\* lines 37-41: the params are stored when the view has none or other ones
StoreParams(stored, view_id, params) ==
  IF stored[view_id] # NoParams /\ stored[view_id] = params
  THEN stored
  ELSE [stored EXCEPT ![view_id] = params]

\* the std::map::at() lookups of SubmitFrame (lines 95, 101 and GetViewRect)
\* and FML_CHECK(picture) find what they look for
SubmitLookupsFound ==
  \A v \in SeqToSet(composition_order_) :
    /\ picture_recorders_[v] # NoRecorder
    /\ v \in view_rtrees_
    /\ view_params_[v] # NoParams

BeginFrame(frame_size, device_pixel_ratio) ==
  /\ Alive /\ At({"idle", "begun", "prerolled"}) /\ Goto("begun")
  \* the raster task that draws the frame starts on the thread that the
  \* merger gives it
  /\ on_platform' = merger.merged
  /\ Reset
  /\ frame_size_' = frame_size
  /\ device_pixel_ratio_' = device_pixel_ratio
  /\ calls' = IF on_platform'
              THEN <<Call("FlutterViewBeginFrame", 0, NoRect, on_platform')>>
              ELSE <<>>
  /\ prerolled' = <<>>
  /\ last' = Ret("BeginFrame", "void")
  /\ host_frame_open' = (on_platform' \/ host_frame_open)
  /\ resubmit_asked' = FALSE
  /\ UNCHANGED << max_overlays, redriven >>
  /\ UNCHANGED << view_rtrees_, view_params_,
                  should_run_rasterizer_on_platform_thread_, surface_pool_,
                  merger >>

PrerollCompositeEmbeddedView(view_id, params) ==
  /\ Alive /\ At({"begun"}) /\ Goto("begun")
  \* a view id is prerolled once per frame
  /\ view_id \notin SeqToSet(composition_order_)
  /\ view_rtrees_' = view_rtrees_ \cup {view_id}
  /\ picture_recorders_' =
       [picture_recorders_ EXCEPT ![view_id] = Recorder({}, TRUE)]
  /\ composition_order_' = PushBack(composition_order_, view_id)
  /\ view_params_' = StoreParams(view_params_, view_id, params)
  /\ calls' = <<>>
  /\ prerolled' = Append(prerolled, view_id)
  /\ last' = Ret("PrerollCompositeEmbeddedView", "void")
  /\ UNCHANGED history
  /\ UNCHANGED << frame_size_, device_pixel_ratio_,
                  should_run_rasterizer_on_platform_thread_, surface_pool_,
                  merger, on_platform >>

\* the UI draws record d on the canvas that CompositeEmbeddedView returns
Draw(view_id, d) ==
  /\ Alive /\ At({"begun", "prerolled"}) /\ Goto(pc)
  /\ CompositeEmbeddedView(view_id) = "canvas"
  /\ d \notin picture_recorders_[view_id].content
  /\ NumDraws < MaxDraws
  /\ picture_recorders_' =
       [picture_recorders_ EXCEPT
          ![view_id] = Recorder(@.content \cup {d}, TRUE)]
  /\ calls' = <<>>
  /\ last' = Ret("Draw", "void")
  /\ UNCHANGED history
  /\ UNCHANGED << composition_order_, view_rtrees_, view_params_, frame_size_,
                  device_pixel_ratio_,
                  should_run_rasterizer_on_platform_thread_, surface_pool_,
                  merger, on_platform, prerolled >>

\* PostPrerollAction without the IsMerged() test
PostPrerollBranch_NoMergeCheck(has_platform_views, is_merged) ==
  IF has_platform_views THEN "extend" ELSE "success"

\* PostPrerollAction that resubmits every frame with platform views
PostPrerollBranch_AlwaysResubmit(has_platform_views, is_merged) ==
  IF has_platform_views THEN "resubmit" ELSE "success"

\* PostPrerollAction without the has_platform_views test
PostPrerollBranch_IgnoreViews(has_platform_views, is_merged) ==
  IF is_merged THEN "extend"
  ELSE IF has_platform_views THEN "resubmit" ELSE "success"

\* PostPrerollAction that leaves the lease alone when the threads are merged
PostPrerollBranch_NoExtend(has_platform_views, is_merged) ==
  IF has_platform_views /\ ~is_merged THEN "resubmit" ELSE "success"

\* lines 209-220: what PostPrerollAction does
PostPrerollBranch(has_platform_views, is_merged) ==
  IF has_platform_views
  THEN IF is_merged THEN "extend" ELSE "resubmit"
  ELSE "success"

PostPrerollAction ==
  /\ Alive /\ At({"begun"}) /\ Goto("prerolled")
  /\ LET has_platform_views == Len(composition_order_) > 0
         branch == PostPrerollBranch(has_platform_views, IsMerged(merger))
     IN  CASE branch = "extend" ->
                /\ merger' = ExtendLeaseTo(merger, kDefaultMergedLeaseDuration)
                /\ calls' = <<Call("ExtendLeaseTo",
                                   kDefaultMergedLeaseDuration, NoRect,
                                   on_platform)>>
                /\ last' = Ret("PostPrerollAction", "kSuccess")
                /\ UNCHANGED << composition_order_, picture_recorders_,
                                should_run_rasterizer_on_platform_thread_,
                                prerolled >>
           [] branch = "resubmit" ->
                /\ should_run_rasterizer_on_platform_thread_' = TRUE
                \* CancelFrame()
                /\ Reset
                /\ prerolled' = <<>>
                /\ calls' = <<>>
                /\ last' = Ret("PostPrerollAction", "kResubmitFrame")
                /\ UNCHANGED merger
           [] OTHER ->
                /\ calls' = <<>>
                /\ last' = Ret("PostPrerollAction", "kSuccess")
                /\ UNCHANGED << composition_order_, picture_recorders_,
                                should_run_rasterizer_on_platform_thread_,
                                prerolled, merger >>
  /\ resubmit_asked' = (last'.ret = "kResubmitFrame")
  /\ UNCHANGED << view_rtrees_, view_params_, frame_size_,
                  device_pixel_ratio_, surface_pool_, on_platform,
                  host_frame_open, max_overlays, redriven >>

SubmitFrame ==
  /\ Alive /\ At({"prerolled"}) /\ Goto("submitted")
  /\ IF SubmitSuppressed
     THEN \* Don't submit the current frame if the frame will be resubmitted.
          /\ calls' = <<>>
          /\ last' = Ret("SubmitFrame", "true")
          /\ UNCHANGED << picture_recorders_, surface_pool_ >>
     ELSE IF ~SubmitLookupsFound
     THEN /\ calls' = <<>>
          /\ last' = Ret("SubmitFrame", "fatal")
          /\ UNCHANGED << picture_recorders_, surface_pool_ >>
     ELSE \E joined_rect \in UninitRects :
          LET overlays == NumOverlays(1, joined_rect)
          IN  /\ surface_pool_.in_use + overlays <= MaxLayers
              /\ calls' = SubmitFrameCalls(joined_rect,
                                            surface_pool_.in_use + 1,
                                            on_platform)
              /\ picture_recorders_' = FinishRecording
              /\ surface_pool_' = GetLayers(surface_pool_, overlays)
              /\ last' = Ret("SubmitFrame", "true")
  /\ max_overlays' =
       Max(max_overlays,
           Cardinality({k \in 1..Len(calls') :
                          calls'[k].call = "FlutterViewDisplayOverlaySurface"}))
  /\ UNCHANGED << composition_order_, view_rtrees_, view_params_, frame_size_,
                  device_pixel_ratio_,
                  should_run_rasterizer_on_platform_thread_, merger,
                  on_platform, prerolled, host_frame_open, resubmit_asked,
                  redriven >>

\* EndFrame that merges whenever the flag is set
EndFrameMerges_IgnoreArgument(should_resubmit_frame) ==
  should_run_rasterizer_on_platform_thread_

\* EndFrame without RecycleLayers()
EndFramePool_Keep(pool) == pool

\* EndFrame that never merges the threads
EndFrameMerges_Never(should_resubmit_frame) == FALSE

\* line 258
EndFrameMerges(should_resubmit_frame) ==
  should_resubmit_frame /\ should_run_rasterizer_on_platform_thread_

\* line 262
EndFramePool(pool) == RecycleLayers(pool)

\* EndFrame that tells the host on whatever thread it runs
EndFrameNotifies_Always(platform) == TRUE

\* line 264: FlutterViewEndFrame is called on the platform thread only
EndFrameNotifies(platform) == platform

EndFrame(should_resubmit_frame) ==
  /\ Alive /\ At({"begun", "prerolled", "submitted", "ticked"})
  /\ Goto("idle")
  /\ LET merging == EndFrameMerges(should_resubmit_frame)
         merged == IF merging
                   THEN MergeWithLease(merger, kDefaultMergedLeaseDuration)
                   ELSE merger
     IN  /\ merger' = merged
         /\ should_run_rasterizer_on_platform_thread_' =
              IF merging THEN FALSE
              ELSE should_run_rasterizer_on_platform_thread_
         /\ surface_pool_' = EndFramePool(surface_pool_)
         /\ calls' =
              (IF merging
               THEN <<Call("MergeWithLease", kDefaultMergedLeaseDuration,
                           NoRect, on_platform)>>
               ELSE <<>>)
              \o (IF EndFrameNotifies(on_platform)
                  THEN <<[Call("FlutterViewEndFrame", 0, NoRect, on_platform)
                            EXCEPT !.merged = merged.merged]>>
                  ELSE <<>>)
  /\ last' = Ret("EndFrame", "void")
  /\ host_frame_open' =
       (~EndFrameNotifies(on_platform) /\ host_frame_open)
  /\ redriven' = (should_resubmit_frame /\ resubmit_asked)
  /\ resubmit_asked' = FALSE
  /\ UNCHANGED max_overlays
  /\ UNCHANGED << composition_order_, picture_recorders_, view_rtrees_,
                  view_params_, frame_size_, device_pixel_ratio_, on_platform,
                  prerolled >>

CancelFrame ==
  /\ Alive /\ At({"begun", "prerolled"}) /\ Goto(pc)
  /\ Reset
  /\ prerolled' = <<>>
  /\ calls' = <<>>
  /\ last' = Ret("CancelFrame", "void")
  /\ UNCHANGED history
  /\ UNCHANGED << view_rtrees_, view_params_, frame_size_, device_pixel_ratio_,
                  should_run_rasterizer_on_platform_thread_, surface_pool_,
                  merger, on_platform >>

\* lines 53-60: picture_recorders_.at(view_id) for every id of the order
GetCurrentCanvases ==
  /\ Alive /\ At({"begun", "prerolled"}) /\ Goto(pc)
  /\ calls' = <<>>
  /\ UNCHANGED history
  /\ last' = IF \A v \in SeqToSet(composition_order_) :
                  picture_recorders_[v] # NoRecorder
             THEN Ret("GetCurrentCanvases", "canvases")
             ELSE Ret("GetCurrentCanvases", "fatal")
  /\ UNCHANGED << composition_order_, picture_recorders_, view_rtrees_,
                  view_params_, frame_size_, device_pixel_ratio_,
                  should_run_rasterizer_on_platform_thread_, surface_pool_,
                  merger, on_platform, prerolled >>

\* lines 62-71 called for view_id: view_params_.at(view_id)
CallGetViewRect(view_id) ==
  /\ Alive /\ At({"begun", "prerolled"}) /\ Goto(pc)
  /\ calls' = <<>>
  /\ UNCHANGED history
  /\ last' = IF view_params_[view_id] = NoParams
             THEN Ret("GetViewRect", "fatal")
             ELSE Ret("GetViewRect", "rect")
  /\ UNCHANGED << composition_order_, picture_recorders_, view_rtrees_,
                  view_params_, frame_size_, device_pixel_ratio_,
                  should_run_rasterizer_on_platform_thread_, surface_pool_,
                  merger, on_platform, prerolled >>

\* the rasterizer ticks the lease after it has drawn a frame
DecrementLease ==
  /\ Alive /\ At({"submitted"}) /\ Goto("ticked")
  /\ merger.merged
  /\ merger' = DecrementLeaseOf(merger)
  /\ calls' = <<>>
  /\ last' = Ret("DecrementLease", "void")
  /\ UNCHANGED history
  /\ UNCHANGED << composition_order_, picture_recorders_, view_rtrees_,
                  view_params_, frame_size_, device_pixel_ratio_,
                  should_run_rasterizer_on_platform_thread_, surface_pool_,
                  on_platform, prerolled >>

-----------------------------------------------------------------------------
(* Specifications *)

Constructed ==
  /\ composition_order_ = <<>>
  /\ picture_recorders_ = NoRecorders
  /\ view_rtrees_ = {}
  /\ view_params_ = [v \in ViewIds |-> NoParams]
  \* frame_size_ and device_pixel_ratio_ are set by the first BeginFrame
  /\ frame_size_ \in FrameSizes
  /\ device_pixel_ratio_ \in PixelRatios
  /\ should_run_rasterizer_on_platform_thread_ = FALSE
  /\ surface_pool_ = [layers |-> 0, in_use |-> 0]
  /\ merger = [merged |-> FALSE, lease |-> 0]
  /\ on_platform = FALSE
  /\ calls = <<>>
  /\ last = Ret("AndroidExternalViewEmbedder", "void")
  /\ prerolled = <<>>
  /\ host_frame_open = FALSE
  /\ max_overlays = 0
  /\ resubmit_asked = FALSE
  /\ redriven = FALSE

Init == Constructed /\ pc = "idle"

\* what the rasterizer and the UI do in a frame that has begun
InFrame ==
  \/ \E view_id \in ViewIds, params \in ParamsSet :
       PrerollCompositeEmbeddedView(view_id, params)
  \/ \E view_id \in ViewIds, d \in DrawIds : Draw(view_id, d)
  \/ PostPrerollAction
  \/ SubmitFrame
  \/ \E should_resubmit_frame \in BOOLEAN : EndFrame(should_resubmit_frame)
  \/ CancelFrame
  \/ GetCurrentCanvases
  \/ \E view_id \in ViewIds : CallGetViewRect(view_id)
  \/ DecrementLease

Next ==
  \/ \E frame_size \in FrameSizes, device_pixel_ratio \in PixelRatios :
       BeginFrame(frame_size, device_pixel_ratio)
  \/ InFrame

Spec == Init /\ [][Next]_vars

\* the rasterizer ends every frame it has begun: BeginFrame only follows
\* construction or EndFrame
NextDriven ==
  \/ /\ At({"idle"})
     /\ \E frame_size \in FrameSizes, device_pixel_ratio \in PixelRatios :
          BeginFrame(frame_size, device_pixel_ratio)
  \/ InFrame

SpecDriven == Init /\ [][NextDriven]_vars

-----------------------------------------------------------------------------
(* Properties *)

\* a rectangle on the pixel grid
IsIntegral(r) == \A k \in 1..4 : r[k] % 2 = 0

Contains(outer, inner) ==
  /\ outer[1] <= inner[1] /\ outer[2] <= inner[2]
  /\ inner[3] <= outer[3] /\ inner[4] <= outer[4]

HostCalls ==
  { "FlutterViewBeginFrame", "FlutterViewEndFrame",
    "FlutterViewOnDisplayPlatformView", "FlutterViewDisplayOverlaySurface" }

PlacementCallNames ==
  { "FlutterViewOnDisplayPlatformView", "FlutterViewDisplayOverlaySurface" }

CallsNamed(names) == {k \in 1..Len(calls) : calls[k].call \in names}

Embedder ==
  << composition_order_, picture_recorders_, view_rtrees_, view_params_,
     frame_size_, device_pixel_ratio_,
     should_run_rasterizer_on_platform_thread_, surface_pool_ >>

C2_ResubmitIffViewsAndUnmerged ==
  [][PostPrerollAction =>
       /\ last'.ret \in {"kSuccess", "kResubmitFrame"}
       /\ last'.ret = "kResubmitFrame"
            <=> (composition_order_ # <<>> /\ ~merger.merged)
       /\ last'.ret = "kResubmitFrame"
            => /\ composition_order_' = <<>>
               /\ \A v \in ViewIds : picture_recorders_'[v] = NoRecorder
    ]_vars

C2_Witness ==
  /\ last = Ret("PostPrerollAction", "kResubmitFrame")
  /\ composition_order_ = <<>>

\* C3: with an empty composition order PostPrerollAction returns kSuccess,
\* merged or not, calls neither ExtendLeaseTo nor MergeWithLease, and leaves
\* the merger and the resubmission flag as they were.
C3_NoViewsSuccessUntouched ==
  [][PostPrerollAction /\ composition_order_ = <<>> =>
       /\ last'.ret = "kSuccess"
       /\ calls' = <<>>
       /\ UNCHANGED << merger, should_run_rasterizer_on_platform_thread_ >>
    ]_vars

C3_Witness ==
  /\ last = Ret("PostPrerollAction", "kSuccess")
  /\ composition_order_ = <<>>
  /\ merger.merged
  /\ calls = <<>>

\* C4 as claimed: with a non-empty composition order and unmerged threads
\* PostPrerollAction asks the merger for a merge during the call, sets the
\* resubmission flag, cancels the frame and returns kResubmitFrame.
C4_MergeRequestedDuringCall ==
  [][PostPrerollAction /\ composition_order_ # <<>> /\ ~merger.merged =>
       /\ \E k \in 1..Len(calls') : calls'[k].call = "MergeWithLease"
       /\ should_run_rasterizer_on_platform_thread_'
       /\ composition_order_' = <<>>
       /\ last'.ret = "kResubmitFrame"
    ]_vars

\* C4 as amended: with a non-empty composition order and unmerged threads
\* PostPrerollAction sets the resubmission flag, cancels the frame as
\* CancelFrame does and returns kResubmitFrame without a call on the merger;
\* the merge is requested by a later EndFrame(true) that finds the flag set.
C4_MergeRequestedInEndFrame ==
  [][/\ PostPrerollAction /\ composition_order_ # <<>> /\ ~merger.merged =>
          /\ calls' = <<>>
          /\ merger' = merger
          /\ should_run_rasterizer_on_platform_thread_'
          /\ composition_order_' = <<>>
          /\ \A v \in ViewIds : picture_recorders_'[v] = NoRecorder
          /\ UNCHANGED << view_rtrees_, view_params_, frame_size_,
                          device_pixel_ratio_, surface_pool_ >>
          /\ last'.ret = "kResubmitFrame"
     /\ EndFrame(TRUE) /\ should_run_rasterizer_on_platform_thread_ =>
          /\ calls'[1].call = "MergeWithLease"
          /\ merger'.merged
    ]_vars

C4_Witness ==
  /\ last.op = "EndFrame"
  /\ Len(calls) > 0 /\ calls[1].call = "MergeWithLease"
  /\ merger.merged
  /\ ~should_run_rasterizer_on_platform_thread_

\* C5: with a non-empty composition order and merged threads
\* PostPrerollAction extends the lease to kDefaultMergedLeaseDuration,
\* returns kSuccess and leaves the composition order, the recorders and the
\* resubmission flag as they were.
C5_MergedExtendsLease ==
  [][PostPrerollAction /\ composition_order_ # <<>> /\ merger.merged =>
       /\ Len(calls') = 1
       /\ calls'[1].call = "ExtendLeaseTo"
       /\ calls'[1].id = kDefaultMergedLeaseDuration
       /\ merger' = [merged |-> TRUE, lease |-> kDefaultMergedLeaseDuration]
       /\ last'.ret = "kSuccess"
       /\ UNCHANGED << composition_order_, picture_recorders_,
                       should_run_rasterizer_on_platform_thread_ >>
    ]_vars

C5_Witness ==
  /\ last = Ret("PostPrerollAction", "kSuccess")
  /\ composition_order_ # <<>>
  /\ Len(calls) = 1 /\ calls[1].call = "ExtendLeaseTo"

\* C6: SubmitFrame always returns true; while the resubmission flag is set
\* it makes no call at all (no background submit, no placement, no layer
\* taken from the pool) and changes nothing of the embedder.
C6_SuppressedSubmitIsNoOp ==
  [][SubmitFrame =>
       /\ last'.ret = "true"
       /\ should_run_rasterizer_on_platform_thread_ =>
            /\ calls' = <<>>
            /\ UNCHANGED Embedder
            /\ UNCHANGED merger
    ]_vars

C6_Witness ==
  /\ last = Ret("SubmitFrame", "true")
  /\ should_run_rasterizer_on_platform_thread_
  /\ calls = <<>>

\* C7: EndFrame calls MergeWithLease(kDefaultMergedLeaseDuration) exactly
\* when its argument is true and the resubmission flag is set, and then the
\* flag is clear afterwards; otherwise it makes no call on the merger and
\* leaves the flag as it was.
C7_EndFrameMergesIffResubmit ==
  [][\A should_resubmit_frame \in BOOLEAN :
       EndFrame(should_resubmit_frame) =>
         LET merging == /\ should_resubmit_frame
                        /\ should_run_rasterizer_on_platform_thread_
             asked == {k \in 1..Len(calls') :
                         calls'[k].call \in {"MergeWithLease", "ExtendLeaseTo"}}
         IN  IF merging
             THEN /\ asked = {1}
                  /\ calls'[1].call = "MergeWithLease"
                  /\ calls'[1].id = kDefaultMergedLeaseDuration
                  /\ ~should_run_rasterizer_on_platform_thread_'
             ELSE /\ asked = {}
                  /\ UNCHANGED << merger,
                                  should_run_rasterizer_on_platform_thread_ >>
    ]_vars

C7_Witness ==
  /\ last.op = "EndFrame"
  /\ Len(calls) > 0 /\ calls[1].call = "MergeWithLease"
  /\ calls[1].id = kDefaultMergedLeaseDuration
  /\ merger.lease = kDefaultMergedLeaseDuration

\* C8: after every EndFrame, whatever its argument, the flag and the merge
\* state, no layer of the pool is in use and every layer created is still
\* in the pool.
C8_EndFrameRecyclesLayers ==
  [][(\E should_resubmit_frame \in BOOLEAN : EndFrame(should_resubmit_frame))
       => /\ surface_pool_'.in_use = 0
          /\ surface_pool_'.layers = surface_pool_.layers
    ]_vars

C8_Witness ==
  /\ last.op = "EndFrame"
  /\ surface_pool_.layers > 1
  /\ surface_pool_.in_use = 0

\* C9: after BeginFrame, whatever came before, the composition order is
\* empty, no recorder exists and the resubmission flag is clear.
C9_BeginFrameResetsFrameState ==
  last.op = "BeginFrame" =>
    /\ composition_order_ = <<>>
    /\ \A v \in ViewIds : picture_recorders_[v] = NoRecorder
    /\ ~should_run_rasterizer_on_platform_thread_

\* C10: the composition order is the sequence of the view ids prerolled
\* since the last BeginFrame or CancelFrame, in call order.
C10_CompositionOrderIsPrerollSequence ==
  composition_order_ = prerolled

C10_Witness ==
  /\ last.op = "PrerollCompositeEmbeddedView"
  /\ composition_order_ = <<2, 1>>

C12_UnprerolledLookupIsFatal ==
  [][\A v \in ViewIds :
       CallGetViewRect(v) /\ v \notin SeqToSet(prerolled)
         => last'.ret = "fatal"]_vars

\* C12: GetViewRect of a view id is a fatal error exactly when the id was
\* never prerolled since construction (view_rtrees_ holds every id ever
\* prerolled); for an id prerolled in an earlier frame only, the lookup
\* finds the params stored then.
C12_NeverPrerolledLookupIsFatal ==
  [][\A v \in ViewIds :
       CallGetViewRect(v) =>
         /\ last'.ret = "fatal" <=> v \notin view_rtrees_
         /\ v \in view_rtrees_ => last'.ret = "rect"]_vars

C12_Witness ==
  /\ last = Ret("GetViewRect", "rect")
  /\ prerolled = <<>> /\ composition_order_ = <<>>
  /\ view_rtrees_ # {}

\* the calls of SubmitFrame on the overlay layers and on the host
OverlayCallNames ==
  { "GetLayer", "FlutterViewDisplayOverlaySurface", "overlay.drawPicture",
    "overlay.Submit" }

\* SubmitFrame has run to its end without the early return of line 79
Submitted ==
  /\ last = Ret("SubmitFrame", "true")
  /\ ~should_run_rasterizer_on_platform_thread_

\* C13: a SubmitFrame that is not suppressed submits the background frame
\* exactly once, after every slot has clipped and drawn on the background
\* canvas, and before every FlutterViewOnDisplayPlatformView, GetLayer,
\* FlutterViewDisplayOverlaySurface and overlay submit.
C13_BackgroundSubmittedOnceInBetween ==
  Submitted =>
    /\ Cardinality(CallsNamed({"frame.Submit"})) = 1
    /\ \A s \in CallsNamed({"frame.Submit"}) :
         /\ \A k \in CallsNamed({"clipRect", "drawPicture"}) : k < s
         /\ \A k \in CallsNamed(OverlayCallNames
                                  \cup {"FlutterViewOnDisplayPlatformView"}) :
              s < k
    /\ Cardinality(CallsNamed({"drawPicture"})) = Len(composition_order_)
    /\ {calls[k].id : k \in CallsNamed({"drawPicture"})}
         = SeqToSet(composition_order_)

C13_Witness ==
  /\ Submitted
  /\ Len(composition_order_) = 2
  /\ CallsNamed({"clipRect"}) # {}
  /\ CallsNamed({"overlay.Submit"}) # {}

\* the last operation has called name
Called(name) == \E k \in 1..Len(calls) : calls[k].call = name

\* C14: with every frame ended by EndFrame before the next BeginFrame, every
\* FlutterViewOnDisplayPlatformView and FlutterViewDisplayOverlaySurface is
\* called while the host has got the FlutterViewBeginFrame of the frame's
\* BeginFrame and not yet the FlutterViewEndFrame of its EndFrame; the two
\* alternate, starting with FlutterViewBeginFrame, so that no
\* FlutterViewEndFrame is called for a frame whose BeginFrame did not call
\* FlutterViewBeginFrame.
C14_HostFrameBracket ==
  [][/\ Called("FlutterViewBeginFrame")' =>
          ~host_frame_open /\ last'.op = "BeginFrame"
     /\ Called("FlutterViewEndFrame")' =>
          host_frame_open /\ last'.op = "EndFrame"
     /\ (\E name \in PlacementCallNames : Called(name)') =>
          /\ host_frame_open /\ host_frame_open'
          /\ last'.op = "SubmitFrame"
     /\ last'.op = "BeginFrame" =>
          (host_frame_open' <=> Called("FlutterViewBeginFrame")')
     /\ last'.op = "EndFrame" => ~host_frame_open']_vars

C14_Witness ==
  /\ last.op = "SubmitFrame"
  /\ Called("FlutterViewOnDisplayPlatformView")
  /\ Called("FlutterViewDisplayOverlaySurface")
  /\ host_frame_open

\* C15: in a frame in which no platform view is prerolled, PostPrerollAction
\* returns kSuccess, and SubmitFrame calls neither
\* FlutterViewOnDisplayPlatformView nor FlutterViewDisplayOverlaySurface and
\* acquires no layer of the surface pool.
C15_NoViewsNoPlacement ==
  [][/\ last'.op = "PostPrerollAction" /\ prerolled = <<>> =>
          last'.ret = "kSuccess"
     /\ last'.op = "SubmitFrame" /\ prerolled = <<>> =>
          /\ \A k \in 1..Len(calls') :
               calls'[k].call \notin PlacementCallNames \cup OverlayCallNames
          /\ surface_pool_' = surface_pool_]_vars

C15_Witness ==
  /\ Submitted
  /\ prerolled = <<>>
  /\ [k \in 1..Len(calls) |-> calls[k].call] = <<"frame.Submit">>
  /\ view_rtrees_ # {}

\* the rectangles of the calls named name, in call order
RECURSIVE RectsFrom(_, _)
RectsFrom(name, k) ==
  IF k > Len(calls) THEN <<>>
  ELSE (IF calls[k].call = name THEN <<calls[k].rect>> ELSE <<>>)
         \o RectsFrom(name, k + 1)

RectsOf(name) == RectsFrom(name, 1)

\* the bounds of the draw operations of view v that intersect rect
DrawnOver(v, rect) ==
  {DrawRects[d] : d \in {e \in picture_recorders_[v].content \cap DrawIds :
                           Intersects(DrawRects[e], rect)}}

\* C16: in a submitted frame with one platform view,
\* FlutterViewOnDisplayPlatformView is called once, with the view's
\* rectangle. With no drawn content over the view's rectangle there is no
\* overlay, no layer is acquired and the background is not clipped
\* (Scenario B); with up to kMaxLayerAllocations drawn rectangles over it the
\* overlay rectangles are exactly their outward roundings: the background is
\* clipped by each and one layer is acquired and placed at each, so that one
\* drawn rectangle R gives exactly one overlay at R rounded out (Scenario C).
C16_OneViewOverlays ==
  Submitted /\ Len(composition_order_) = 1 =>
    LET v == composition_order_[1]
        over == DrawnOver(v, GetViewRect(v))
        placed == RectsOf("FlutterViewDisplayOverlaySurface")
    IN  /\ RectsOf("FlutterViewOnDisplayPlatformView") = <<GetViewRect(v)>>
        /\ \A k \in CallsNamed({"FlutterViewOnDisplayPlatformView"}) :
             calls[k].id = v
        /\ over = {} =>
             CallsNamed({"clipRect"} \cup OverlayCallNames) = {}
        /\ Cardinality(over) <= kMaxLayerAllocations =>
             /\ Len(placed) = Cardinality(over)
             /\ SeqToSet(placed) = {RoundOut(r) : r \in over}
             /\ RectsOf("clipRect") = placed
             /\ Cardinality(CallsNamed({"GetLayer"})) = Len(placed)
             /\ Cardinality(CallsNamed({"overlay.Submit"})) = Len(placed)

C16_Witness ==
  /\ Submitted /\ Len(composition_order_) = 1
  /\ RectsOf("clipRect") = << <<0, 0, 4, 4>> >>
  /\ RectsOf("FlutterViewDisplayOverlaySurface") = << <<0, 0, 4, 4>> >>
  /\ Cardinality(CallsNamed({"GetLayer"})) = 1
  /\ Cardinality(CallsNamed({"FlutterViewOnDisplayPlatformView"})) = 1

\* the smallest rectangle that contains every rectangle of a sequence
RECURSIVE BoundingBox(_)
BoundingBox(rects) ==
  IF Len(rects) = 1 THEN Head(rects)
  ELSE LET r == Head(rects)
           b == BoundingBox(Tail(rects))
       IN  <<Min(r[1], b[1]), Min(r[2], b[2]), Max(r[3], b[3]), Max(r[4], b[4])>>

\* what one query contributes: its rectangles, or their bounding box when
\* they are more than kMaxLayerAllocations
Capped(found) ==
  IF Len(found) > kMaxLayerAllocations THEN <<BoundingBox(found)>> ELSE found

RECURSIVE ExpectedSlot(_, _)
ExpectedSlot(i, j) ==
  IF j < 1 THEN <<>>
  ELSE LET found == searchNonOverlappingDrawnRects(
                      picture_recorders_[composition_order_[i]].content,
                      GetViewRect(composition_order_[j]))
           capped == Capped(found)
       IN  [k \in 1..Len(capped) |-> RoundOut(capped[k])]
             \o ExpectedSlot(i, j - 1)

RECURSIVE ExpectedClips(_)
ExpectedClips(i) ==
  IF i > Len(composition_order_) THEN <<>>
  ELSE ExpectedSlot(i, i) \o ExpectedClips(i + 1)

\* C17: when one r-tree query returns more than kMaxLayerAllocations
\* rectangles, the background is clipped by exactly one rectangle for that
\* query, the bounding box of all the rectangles returned (rounded out);
\* otherwise it is clipped by the rectangles as returned (rounded out).
C17_CollapseIsBoundingBox ==
  Submitted => RectsOf("clipRect") = ExpectedClips(1)

\* the rectangles of all slots before line 134 rounds them, in loop order
RECURSIVE UnroundedFrom(_, _, _)
UnroundedFrom(i, j, joined_rect) ==
  IF i > Len(composition_order_) THEN <<>>
  ELSE IF j < 1 THEN UnroundedFrom(i + 1, i + 1, joined_rect)
  ELSE KeptRects(i, j, joined_rect) \o UnroundedFrom(i, j - 1, joined_rect)

\* C18: every rectangle that clips the background or places an overlay is
\* on the pixel grid and contains the rectangle it was rounded from, and the
\* rectangles that clip the background are the rectangles at which the
\* overlays are placed.
C18_RoundedOutOnPixelGrid ==
  Submitted =>
    LET clips == RectsOf("clipRect")
        placed == RectsOf("FlutterViewDisplayOverlaySurface")
    IN  /\ clips = placed
        /\ \A k \in 1..Len(clips) : IsIntegral(clips[k])
        /\ \E joined_rect \in UninitRects :
             LET unrounded == UnroundedFrom(1, 1, joined_rect)
             IN  /\ Len(unrounded) = Len(clips)
                 /\ \A k \in 1..Len(clips) :
                      /\ Contains(clips[k], unrounded[k])
                      /\ \A e \in 1..4 :
                           clips[k][e] - unrounded[k][e] \in {-1, 0, 1}

C18_Witness ==
  /\ Submitted
  /\ RectsOf("clipRect") = << <<0, 0, 4, 4>>, <<4, 0, 10, 4>> >>
  /\ RectsOf("FlutterViewDisplayOverlaySurface") = RectsOf("clipRect")

\* C19: the surface pool creates a layer only when every layer it holds is
\* handed out; with every submitted frame ended by EndFrame, a frame is
\* handed distinct layers, one per overlay it places, the layers freed by
\* EndFrame are handed out again, the pool never shrinks, and the layers
\* created so far are as many as the most overlays placed in one frame.
C19_PoolGrowsToLargestFrame ==
  [][/\ surface_pool_'.layers >= surface_pool_.layers
     /\ surface_pool_'.in_use <= surface_pool_'.layers
     /\ surface_pool_'.layers > surface_pool_.layers =>
          surface_pool_'.in_use = surface_pool_'.layers
     /\ last'.op = "SubmitFrame" =>
          /\ surface_pool_.in_use = 0
          /\ surface_pool_'.in_use
               = Cardinality({k \in 1..Len(calls') :
                                calls'[k].call = "GetLayer"})
          /\ surface_pool_'.in_use
               = Cardinality({k \in 1..Len(calls') :
                    calls'[k].call = "FlutterViewDisplayOverlaySurface"})
          /\ {calls'[k].id : k \in {e \in 1..Len(calls') :
                                      calls'[e].call = "GetLayer"}}
               = 1..surface_pool_'.in_use
     /\ last'.op = "EndFrame" => surface_pool_'.in_use = 0
     /\ surface_pool_'.layers = max_overlays']_vars

C19_Witness ==
  /\ Submitted
  /\ surface_pool_ = [layers |-> 3, in_use |-> 2]
  /\ max_overlays = 3

\* the view ids of the calls named name, in call order
RECURSIVE IdsFrom(_, _, _)
IdsFrom(cs, name, k) ==
  IF k > Len(cs) THEN <<>>
  ELSE (IF cs[k].call = name THEN <<cs[k].id>> ELSE <<>>)
         \o IdsFrom(cs, name, k + 1)

\* C20: when PostPrerollAction has returned kResubmitFrame and the frame was
\* ended with EndFrame(true), the threads are merged with a lease; in the
\* frame driven next PostPrerollAction returns kSuccess, so that no
\* resubmission is asked twice in a row, and SubmitFrame is not suppressed
\* and calls FlutterViewOnDisplayPlatformView for every prerolled view, in
\* preroll order.
C20_ResubmittedFrameIsDrawn ==
  [][/\ last'.op = "EndFrame" /\ redriven' =>
          /\ merger'.merged /\ merger'.lease >= 1
          /\ ~should_run_rasterizer_on_platform_thread_'
     /\ last'.op = "PostPrerollAction" /\ redriven =>
          last'.ret = "kSuccess" /\ ~resubmit_asked'
     /\ last'.op = "SubmitFrame" /\ redriven =>
          /\ last'.ret = "true"
          /\ ~should_run_rasterizer_on_platform_thread_
          /\ IdsFrom(calls', "frame.Submit", 1) = <<0>>
          /\ IdsFrom(calls', "FlutterViewOnDisplayPlatformView", 1)
               = prerolled]_vars

C20_Witness ==
  /\ Submitted /\ redriven
  /\ Len(prerolled) = 2
  /\ Cardinality(CallsNamed({"FlutterViewOnDisplayPlatformView"})) = 2


====
